---- MODULE Spec2Model ----
(***************************************************************************)
(* REINFORCE training script, src/REINFORCE/reinforce.py.                  *)
(*                                                                         *)
(* The script is one sequential process: module set-up (lines 95-118), a   *)
(* for loop over epochs (121-217) holding a rollout loop (143-174), the    *)
(* discounted-return scan (178-201), the standardisation (202-203), the    *)
(* loss assembly (205-213) and the optimizer step (215-217), then the      *)
(* save and close (219-222).  pc is the position of that process.          *)
(*                                                                         *)
(* Numbers.  Rewards are small integers.  gamma = 0.99 is the fraction     *)
(* GammaNum / GammaDen, and a discounted return is held in fixed point,    *)
(* as the integer  return * Scale  with Scale = GammaDen^(MaxSteps-1), so  *)
(* that every return of an episode of at most MaxSteps steps is exact.     *)
(* A standardised return (x - mean) / std is held as its numerator         *)
(* N*x - sum over the common denominator N*std, together with the class    *)
(* of std: "nan" (fewer than two entries, torch's unbiased estimator       *)
(* divides 0 by 0), "zero" (all entries equal) or "pos".                   *)
(***************************************************************************)
EXTENDS Integers, Sequences, FiniteSets, TLC

VARIABLES pc, n_epoch, env, policy, plot_info, cum_reward, states, actions,
          rewards, saved_log_probs, state, action, total_rewards, loss, disk

vars == <<pc, n_epoch, env, policy, plot_info, cum_reward, states, actions,
          rewards, saved_log_probs, state, action, total_rewards, loss, disk>>

(* ---------------------------------------------------------------- bounds *)

\* Number of epochs of a run; the script sets 100 (line 111).
max_eps == 2

\* Step limit of the environment: the step that reaches it reports truncated
\* (CartPole-v1 truncates an episode at its own step limit).
MaxSteps == 2

(* ------------------------------------------------------------- constants *)

\* gamma = 0.99 (line 178) as GammaNum / GammaDen.
GammaNum == 99

GammaDen == 100

\* env.action_space.n of CartPole-v1 (line 106).
n_actions == 2

Actions == 0 .. (n_actions - 1)

\* Rewards the environment may hand out (CartPole-v1 hands out 1 a step).
Rewards == {0, 1}

RECURSIVE Pow(_, _)
Pow(b, e) == IF e = 0 THEN 1 ELSE b * Pow(b, e - 1)

\* Fixed-point unit of a discounted return.
Scale == Pow(GammaDen, MaxSteps - 1)

(* --------------------------------------------------------------- helpers *)

RECURSIVE SeqSum(_)
SeqSum(s) == IF s = <<>> THEN 0 ELSE s[1] + SeqSum(Tail(s))

Min(a, b) == IF a <= b THEN a ELSE b

(* ----------------------------------------------------------- environment *)

\* The environment is a deterministic stub in its observations: the
\* observation of an episode's position k (0 after reset, k after the k-th
\* step) is k.  Rewards and the two flags are the environment's free choice.
\* env keeps the episode as the environment saw it: the observations it
\* returned (obs), the actions it was given (acts), the rewards it returned
\* (rews), the number of reset calls so far (episode), and where it stands
\* in the reset/step/close protocol (status): "ready" after a reset, "over"
\* once a step has reported terminated or truncated, "closed" after close.
InitialObservation == 0

NextObservation(e) == Len(e.obs)

\* env.reset(): a new episode starts.
EnvReset(e) ==
    [status |-> IF e.status = "closed" THEN "closed" ELSE "ready",
     episode |-> e.episode + 1,
     obs |-> <<InitialObservation>>, acts |-> <<>>, rews |-> <<>>]

\* env.step(a) returning (NextObservation, r, terminated, truncated, info).
EnvStep(e, a, r, terminated, truncated) ==
    [status |-> IF e.status = "ready" /\ ~(terminated \/ truncated)
                THEN "ready"
                ELSE IF e.status = "closed" THEN "closed" ELSE "over",
     episode |-> e.episode,
     obs |-> Append(e.obs, NextObservation(e)),
     acts |-> Append(e.acts, a),
     rews |-> Append(e.rews, r)]

\* env.close().
EnvClose(e) == [e EXCEPT !.status = "closed"]

(* ---------------------------------------------------------------- policy *)

\* policy(state), Categorical(logits=...).log_prob(action): the log-probability
\* of action a at observation o under parameter version ver, in tenths.  The
\* network is a deterministic function of its parameters and its input.
LogProb(ver, o, a) == -(1 + ((ver + o + a) % 3))

\* The value of a recorded log-probability tensor.
LogProbVal(lp) == LogProb(lp.ver, lp.obs, lp.act)

LogProbVals(lps) == [i \in 1 .. Len(lps) |-> LogProbVal(lps[i])]

(* --------------------------------------------------------------- rollout *)

\* Variant: the observation the policy was queried with is recorded.
RecordedObservationQueried(queried, new_state) == queried

\* states.append(new_state): what the rollout records as the observation of
\* a step, given the observation the policy was queried with and the one the
\* step returned.
RecordedObservation(queried, new_state) == new_state

\* Variant: the loop has no break.
TerminalNever(terminated, truncated) == FALSE

\* Variant: only terminated ends the loop.
TerminalIgnoresTruncated(terminated, truncated) == terminated

\* if terminated or truncated: break
Terminal(terminated, truncated) == terminated \/ truncated

(* --------------------------------------------------------------- returns *)

\* discounted_reward = r + gamma * discounted_reward, in fixed point.
DiscountStep(r, d) == r * Scale + (GammaNum * d) \div GammaDen

\* for r in rewards[::-1]: ...; total_rewards.appendleft(discounted_reward)
RECURSIVE Scan(_, _, _)
Scan(rs, d, dq) ==
    IF rs = <<>> THEN dq
    ELSE LET nd == DiscountStep(rs[Len(rs)], d)
         IN  Scan(SubSeq(rs, 1, Len(rs) - 1), nd, <<nd>> \o dq)

\* Variant: append in place of appendleft.
RECURSIVE ScanAppend(_, _, _)
ScanAppend(rs, d, dq) ==
    IF rs = <<>> THEN dq
    ELSE LET nd == DiscountStep(rs[Len(rs)], d)
         IN  ScanAppend(SubSeq(rs, 1, Len(rs) - 1), nd, Append(dq, nd))

DiscountedReturnsAppend(rs) == ScanAppend(rs, 0, <<>>)

DiscountedReturns(rs) == Scan(rs, 0, <<>>)

\* Variant: the population estimator, which is zero for a single entry.
StdClassPopulation(dev) ==
    IF \A i \in 1 .. Len(dev) : dev[i] = 0 THEN "zero" ELSE "pos"

\* torch's std() of a tensor: undefined below two entries, zero exactly when
\* every deviation from the mean is zero (the sum of their squares is zero).
StdClass(dev) ==
    IF Len(dev) < 2 THEN "nan"
    ELSE IF \A i \in 1 .. Len(dev) : dev[i] = 0 THEN "zero" ELSE "pos"

\* (total_rewards - total_rewards.mean()) / total_rewards.std(): no guard.
Standardize(g) ==
    LET n == Len(g)
        s == SeqSum(g)
        dev == [i \in 1 .. n |-> n * g[i] - s]
    IN  [v |-> dev, std |-> StdClass(dev)]

(* ------------------------------------------------------------------ loss *)

\* zip(saved_log_probs, total_rewards): stops at the shorter one.
Zip(a, b) == [i \in 1 .. Min(Len(a), Len(b)) |-> <<a[i], b[i]>>]

\* Variant: the sign is lost.
LossTermsNoNegation(lps, rets) ==
    LET z == Zip(lps, rets) IN [i \in 1 .. Len(z) |-> z[i][2] * z[i][1]]

\* losses.append(-r * log_prob) for each pair.
LossTerms(lps, rets) ==
    LET z == Zip(lps, rets) IN [i \in 1 .. Len(z) |-> (-z[i][2]) * z[i][1]]

\* torch.cat(losses).sum()
Loss(lps, rets) == SeqSum(LossTerms(lps, rets))

\* Variant: the log is rebound to the new entry.
AppendLogOverwrite(log, entry) == <<entry>>

\* plot_info.append((n_epoch, cum_reward, loss.item()))
AppendLog(log, entry) == Append(log, entry)

\* Variant: optimizer.step() is missing.
OptimizerStepMissing(params) == params

\* optimizer.step(): one new version of the parameters.
OptimizerStep(params) == params + 1

(* ------------------------------------------------------------------ Init *)

Unset == [v |-> <<>>, std |-> "none"]

Init ==
    /\ pc = "for"
    /\ n_epoch = -1
    /\ env = [status |-> "ready", episode |-> 1, obs |-> <<InitialObservation>>,
              acts |-> <<>>, rews |-> <<>>]
    /\ state = InitialObservation
    /\ policy = 0
    /\ plot_info = <<>>
    /\ cum_reward = 0
    /\ states = <<>>
    /\ actions = <<>>
    /\ rewards = <<>>
    /\ saved_log_probs = <<>>
    /\ action = 0
    /\ total_rewards = Unset
    /\ loss = [num |-> 0, std |-> "none"]
    /\ disk = [ref |-> <<>>, policy |-> -1]

(* --------------------------------------------------------------- actions *)

\* Variant: one epoch too many.
ForLoopOneMore ==
    /\ pc = "for"
    /\ IF n_epoch + 1 <= max_eps
       THEN /\ n_epoch' = n_epoch + 1
            /\ pc' = "reset"
       ELSE /\ pc' = "save"
            /\ UNCHANGED n_epoch
    /\ UNCHANGED <<env, policy, plot_info, cum_reward, states, actions, rewards,
                   saved_log_probs, state, action, total_rewards, loss, disk>>

\* for n_epoch in range(max_eps)
ForLoop ==
    /\ pc = "for"
    /\ IF n_epoch + 1 < max_eps
       THEN /\ n_epoch' = n_epoch + 1
            /\ pc' = "reset"
       ELSE /\ pc' = "save"
            /\ UNCHANGED n_epoch
    /\ UNCHANGED <<env, policy, plot_info, cum_reward, states, actions, rewards,
                   saved_log_probs, state, action, total_rewards, loss, disk>>

\* Variant: cum_reward is initialised once, outside the loop.
EpochResetKeepsCumReward ==
    /\ pc = "reset"
    /\ states' = <<>>
    /\ actions' = <<>>
    /\ rewards' = <<>>
    /\ saved_log_probs' = <<>>
    /\ env' = EnvReset(env)
    /\ state' = env'.obs[1]
    /\ pc' = "query"
    /\ UNCHANGED <<n_epoch, policy, plot_info, cum_reward, action, total_rewards,
                   loss, disk>>

\* cum_reward = 0; the four lists = []; state, info = env.reset()
EpochReset ==
    /\ pc = "reset"
    /\ cum_reward' = 0
    /\ states' = <<>>
    /\ actions' = <<>>
    /\ rewards' = <<>>
    /\ saved_log_probs' = <<>>
    /\ env' = EnvReset(env)
    /\ state' = env'.obs[1]
    /\ pc' = "query"
    /\ UNCHANGED <<n_epoch, policy, plot_info, action, total_rewards, loss, disk>>

\* logits = policy(state); action = Categorical(logits).sample();
\* actions.append(action); saved_log_probs.append(log_prob(action))
Query ==
    /\ pc = "query"
    /\ \E a \in Actions :
          /\ action' = a
          /\ actions' = Append(actions, a)
          /\ saved_log_probs' =
                Append(saved_log_probs, [ver |-> policy, obs |-> state, act |-> a])
    /\ pc' = "step"
    /\ UNCHANGED <<n_epoch, env, policy, plot_info, cum_reward, states, rewards,
                   state, total_rewards, loss, disk>>

\* new_state, reward, terminated, truncated, info = env.step(action.item());
\* states.append(new_state); rewards.append(reward); cum_reward += reward;
\* break on a terminal step, else state = new_state
Step ==
    /\ pc = "step"
    /\ \E r \in Rewards, terminated \in BOOLEAN, truncated \in BOOLEAN :
          /\ Len(env.acts) + 1 >= MaxSteps => truncated
          /\ env' = EnvStep(env, action, r, terminated, truncated)
          /\ states' = Append(states, RecordedObservation(state, NextObservation(env)))
          /\ rewards' = Append(rewards, r)
          /\ cum_reward' = cum_reward + r
          /\ IF Terminal(terminated, truncated)
             THEN /\ pc' = "scan"
                  /\ UNCHANGED state
             ELSE /\ pc' = "query"
                  /\ state' = NextObservation(env)
    /\ UNCHANGED <<n_epoch, policy, plot_info, actions, saved_log_probs, action,
                   total_rewards, loss, disk>>

\* gamma = 0.99; the backward scan into the deque total_rewards
ScanReturns ==
    /\ pc = "scan"
    /\ total_rewards' = [v |-> DiscountedReturns(rewards), std |-> "none"]
    /\ pc' = "standardize"
    /\ UNCHANGED <<n_epoch, env, policy, plot_info, cum_reward, states, actions,
                   rewards, saved_log_probs, state, action, loss, disk>>

\* total_rewards = tensor(total_rewards); standardise it
StandardizeReturns ==
    /\ pc = "standardize"
    /\ total_rewards' = Standardize(total_rewards.v)
    /\ pc' = "loss"
    /\ UNCHANGED <<n_epoch, env, policy, plot_info, cum_reward, states, actions,
                   rewards, saved_log_probs, state, action, loss, disk>>

\* the loss over zip(saved_log_probs, total_rewards); plot_info.append(...)
AssembleLoss ==
    /\ pc = "loss"
    /\ loss' = [num |-> Loss(LogProbVals(saved_log_probs), total_rewards.v),
                std |-> total_rewards.std]
    /\ plot_info' = AppendLog(plot_info, <<n_epoch, cum_reward, loss'>>)
    /\ pc' = "update"
    /\ UNCHANGED <<n_epoch, env, policy, cum_reward, states, actions, rewards,
                   saved_log_probs, state, action, total_rewards, disk>>

\* optimizer.zero_grad(); loss.backward(); optimizer.step()
Update ==
    /\ pc = "update"
    /\ policy' = OptimizerStep(policy)
    /\ pc' = "for"
    /\ UNCHANGED <<n_epoch, env, plot_info, cum_reward, states, actions, rewards,
                   saved_log_probs, state, action, total_rewards, loss, disk>>

\* np.save("ref", plot_info); torch.save(policy, "policy"); env.close()
SaveAndClose ==
    /\ pc = "save"
    /\ disk' = [ref |-> plot_info, policy |-> policy]
    /\ env' = EnvClose(env)
    /\ pc' = "done"
    /\ UNCHANGED <<n_epoch, policy, plot_info, cum_reward, states, actions,
                   rewards, saved_log_probs, state, action, total_rewards, loss>>

Next ==
    \/ ForLoop
    \/ EpochReset
    \/ Query
    \/ Step
    \/ ScanReturns
    \/ StandardizeReturns
    \/ AssembleLoss
    \/ Update
    \/ SaveAndClose

Spec == Init /\ [][Next]_vars

\* The script is the only process and never waits: it takes its next step.
FairSpec == Spec /\ WF_vars(Next)

(* ------------------------------------------------------------ properties *)

\* Steps the environment has taken in the current episode.
EpisodeSteps == Len(env.acts)

RolloutPcs == {"reset", "query", "step"}

UpdatePcs == {"scan", "standardize", "loss", "update"}

\* Epochs whose loss has been computed / whose update has been applied.
LossesComputed == IF pc \in {"update", "for", "save", "done"} THEN n_epoch + 1 ELSE n_epoch

UpdatesApplied == IF pc \in {"for", "save", "done"} THEN n_epoch + 1 ELSE n_epoch

RECURSIVE SumTo(_, _)
SumTo(f, n) == IF n = 0 THEN 0 ELSE f[n] + SumTo(f, n - 1)

ConstantRewards(c) == \A i \in 1 .. Len(rewards) : rewards[i] = c

\* C1: the backward scan leaves one return per step of the episode, in
\* trajectory order; entry t is r_t + gamma * entry t+1, with the entry after
\* the last taken as 0, so the last entry is the last reward.
C1_ReturnRecurrence ==
    pc = "standardize" =>
        LET g == total_rewards.v
            T == Len(rewards)
        IN  /\ T >= 1
            /\ T = EpisodeSteps
            /\ Len(g) = T
            /\ \A t \in 1 .. T :
                  GammaDen * g[t] =
                      GammaDen * Scale * rewards[t]
                      + GammaNum * (IF t = T THEN 0 ELSE g[t + 1])
            /\ g[T] = Scale * rewards[T]

\* Two steps of reward 1: the returns are 1.99 and 1.
C1_Witness ==
    /\ pc = "standardize"
    /\ rewards = <<1, 1>>
    /\ GammaDen * total_rewards.v[1] = (GammaDen + GammaNum) * Scale
    /\ total_rewards.v[2] = Scale

\* C2: an epoch is ROLLOUT then UPDATE: the environment is touched only by
\* the reset and the steps of the rollout (and the final close), UPDATE is
\* entered only from the step that ended the rollout and left only to the
\* loop head, a rollout starts only from the loop head with the next epoch
\* index, and the loop is left after exactly max_eps epochs.
C2_PhaseOrder ==
    [][/\ (env' /= env => pc \in {"reset", "step", "save"})
       /\ (pc \in UpdatePcs => env' = env /\ pc' \in UpdatePcs \cup {"for"})
       /\ (pc' \in UpdatePcs /\ pc \notin UpdatePcs => pc = "step" /\ pc' = "scan")
       /\ (pc \in RolloutPcs => pc' \in RolloutPcs \cup {"scan"})
       /\ (pc' \in RolloutPcs /\ pc \notin RolloutPcs =>
              pc = "for" /\ pc' = "reset" /\ n_epoch' = n_epoch + 1)
       /\ (pc \in RolloutPcs \cup UpdatePcs => n_epoch' = n_epoch)
       /\ (pc' = "save" /\ pc /= "save" =>
              n_epoch = max_eps - 1 /\ policy = max_eps /\ env.episode = max_eps + 1)
      ]_vars

\* The update of the second epoch, after a rollout of two steps.
C2_Witness == pc = "update" /\ n_epoch = 1 /\ EpisodeSteps = 2

\* C3: the log only grows, by one entry at its end, which carries the epoch's
\* index; it holds one entry per epoch whose loss has been computed, with
\* indices 0, 1, ... in order, and max_eps entries when the run has ended.
C3_LogShape ==
    /\ Len(plot_info) = LossesComputed
    /\ \A i \in 1 .. Len(plot_info) : plot_info[i][1] = i - 1
    /\ (pc = "done" => Len(plot_info) = max_eps /\ disk.ref = plot_info)

C3_LogAppendOnly ==
    [][/\ \/ plot_info' = plot_info
          \/ /\ pc = "loss"
             /\ Len(plot_info') = Len(plot_info) + 1
             /\ SubSeq(plot_info', 1, Len(plot_info)) = plot_info
             /\ plot_info'[Len(plot_info')][1] = n_epoch
       /\ C3_LogShape
       /\ C3_LogShape'
      ]_vars

\* The run has ended with more than one entry in the log.
C3_Witness == pc = "done" /\ Len(plot_info) = max_eps /\ Len(plot_info) >= 2

\* C4: when the rollout has stopped after k steps, the four lists have
\* length k and cum_reward is the sum of the k rewards of this episode.
C4_FreshTrajectory ==
    pc = "scan" =>
        /\ EpisodeSteps >= 1
        /\ Len(states) = EpisodeSteps
        /\ Len(actions) = EpisodeSteps
        /\ Len(saved_log_probs) = EpisodeSteps
        /\ Len(rewards) = EpisodeSteps
        /\ rewards = env.rews
        /\ cum_reward = SeqSum(env.rews)

\* A one-step episode of reward 1 after an epoch whose two steps earned 2.
C4_Witness ==
    /\ pc = "scan"
    /\ n_epoch = 1
    /\ EpisodeSteps = 1
    /\ cum_reward = 1
    /\ plot_info[1][2] = 2

\* C5: only the update step writes the parameters, once per epoch: they are
\* at version n after n completed epochs, and every recorded log-probability
\* of the current episode was computed under the current version.
C5_ParamsState ==
    /\ policy = UpdatesApplied
    /\ (pc \in {"query", "step"} \cup UpdatePcs =>
           \A i \in 1 .. Len(saved_log_probs) : saved_log_probs[i].ver = policy)

C5_SingleWriter ==
    [][/\ (policy' /= policy => pc = "update")
       /\ (pc = "update" => policy' = policy + 1)
       /\ C5_ParamsState
       /\ C5_ParamsState'
      ]_vars

\* The second update is about to run on a two-step episode.
C5_Witness == pc = "update" /\ policy = 1 /\ Len(saved_log_probs) = 2

\* C6: the loss is the sum over the steps t of the episode of
\* -(return t) * (log-probability recorded at step t), one term per step; for
\* returns 1.0, 0.5, -0.5 and log-probabilities -0.2, -0.3, -0.1 (in tenths)
\* it is 0.3 (in hundredths).
C6_LossIsSum ==
    /\ Loss(<<-2, -3, -1>>, <<10, 5, -5>>) = 30
    /\ pc = "update" =>
          /\ Len(LossTerms(LogProbVals(saved_log_probs), total_rewards.v)) = EpisodeSteps
          /\ Len(total_rewards.v) = EpisodeSteps
          /\ loss.num =
                SumTo([t \in 1 .. EpisodeSteps |->
                          -(total_rewards.v[t] * LogProbVal(saved_log_probs[t]))],
                      EpisodeSteps)
          /\ loss.std = total_rewards.std
          /\ plot_info[Len(plot_info)][3] = loss

\* A two-step episode with a finite, non-zero loss.
C6_Witness ==
    /\ pc = "update"
    /\ EpisodeSteps = 2
    /\ loss.std = "pos"
    /\ loss.num /= 0

\* C7: the run ends (save and close done) when every episode ends; the
\* rollout loop is left exactly on a step for which the environment reported
\* terminated or truncated, and on any other step it goes round again.
C7_Terminates ==
    /\ <>(pc = "done")
    /\ [][pc = "step" =>
             /\ (env'.status = "over" => pc' = "scan")
             /\ (env'.status = "ready" => pc' = "query")
         ]_vars

\* The run has ended after all its epochs.
C7_Witness == pc = "done" /\ policy = max_eps /\ env.status = "closed"

\* C8 as stated: a one-step episode and every constant-reward episode have a
\* zero or undefined standard deviation.
C8_Original ==
    pc = "loss" =>
        ((Len(rewards) = 1 \/ \E c \in Rewards : ConstantRewards(c)) =>
            total_rewards.std \in {"nan", "zero"})

\* C8, amended: the standard deviation is undefined for a one-step episode
\* and zero for an episode of two or more steps whose rewards are all 0; an
\* episode of two or more steps of one non-zero reward has distinct returns
\* and a non-zero standard deviation.  The division is made in every case
\* and its outcome goes into the loss and the log.
C8_DegenerateStd ==
    /\ pc = "loss" =>
          /\ total_rewards.std \in {"nan", "zero", "pos"}
          /\ (Len(rewards) = 1 => total_rewards.std = "nan")
          /\ (Len(rewards) >= 2 /\ ConstantRewards(0) => total_rewards.std = "zero")
          /\ \A c \in Rewards \ {0} :
                Len(rewards) >= 2 /\ ConstantRewards(c) => total_rewards.std = "pos"
    /\ pc = "update" => plot_info[Len(plot_info)][3].std = total_rewards.std

\* Two steps of reward 0: the division by zero has reached the log.
C8_Witness ==
    /\ pc = "update"
    /\ rewards = <<0, 0>>
    /\ plot_info[Len(plot_info)][3].std = "zero"

\* C9 as stated: the observation recorded at index t is the one the policy
\* was queried with to sample action t.
C9_Original ==
    \A t \in 1 .. Len(states) :
        /\ states[t] = saved_log_probs[t].obs
        /\ saved_log_probs[t].act = actions[t]
        /\ rewards[t] = env.rews[t]

\* C9, amended: at index t the recorded observation is the one returned by
\* the step that executed action t, the successor of the observation the
\* policy was queried with; the recorded log-probability is that of action t
\* under the distribution of the queried observation, and the recorded
\* reward is the one that step returned.
C9_Trajectory ==
    /\ Len(states) = Len(rewards)
    /\ \A t \in 1 .. Len(rewards) :
          /\ states[t] = env.obs[t + 1]
          /\ saved_log_probs[t].obs = env.obs[t]
          /\ saved_log_probs[t].act = actions[t]
          /\ actions[t] = env.acts[t]
          /\ rewards[t] = env.rews[t]

\* A finished two-step rollout.
C9_Witness == pc = "scan" /\ Len(states) = 2 /\ states[2] /= saved_log_probs[2].obs

\* C10: a step is called only on an environment that was reset in this epoch
\* and has not reported the end of the episode, with the action just sampled;
\* every sampled action reaches one step call; close is called after the last
\* epoch and nothing is called after it.
C10_ActionsDelivered ==
    /\ Len(actions) = EpisodeSteps + (IF pc = "step" THEN 1 ELSE 0)
    /\ \A t \in 1 .. EpisodeSteps : env.acts[t] = actions[t]

C10_Protocol ==
    [][/\ (Len(env'.acts) = Len(env.acts) + 1 =>
              /\ env.status = "ready"
              /\ env.episode = n_epoch + 2
              /\ env'.acts = Append(env.acts, action))
       /\ (env'.episode /= env.episode => pc = "reset" /\ env.status /= "closed")
       /\ (env.status = "closed" => env' = env)
       /\ (env'.status = "closed" /\ env.status /= "closed" =>
              pc = "save" /\ n_epoch = max_eps - 1)
       /\ C10_ActionsDelivered
       /\ C10_ActionsDelivered'
      ]_vars

\* The environment has been closed after a reset per epoch.
C10_Witness == pc = "done" /\ env.status = "closed" /\ env.episode = max_eps + 1

====
